---- MODULE Spec2Model ----
(***************************************************************************)
(* The MCP gateway of the Blockbench plugin: the raw-socket HTTP server     *)
(* (server/net.ts, createNetServer) and the session registry               *)
(* (lib/sessions.ts, SessionManager).                                      *)
(*                                                                         *)
(* JavaScript runs one callback at a time.  A callback that runs from an   *)
(* event to its first await (or from one await to the next) is one action  *)
(* here; the variable running names the connection whose                   *)
(* processHttpRequests loop is executing between two iterations, and no    *)
(* other callback runs while it is set.                                    *)
(*                                                                         *)
(* The buffer holds units.  A unit is a CR, an LF, one body byte, a start  *)
(* line or a header line; chunks split the stream between units.           *)
(***************************************************************************)
EXTENDS Integers, Sequences, FiniteSets, TLC

\* ------------------------------------------------------------------ bounds

MaxSessions == 2        \* ids the transports may mint
MaxTime == 3            \* the clock stops here
MaxChunks == 2          \* chunks one event-stream body produces
MaxFramed == 4          \* requests framed on one connection where the loop has no end
MaxLog == 4             \* events logged for one id by direct calls of the registry

\* 5 * 60 * 1000 ms, in ticks of 150 s
INACTIVITY_TIMEOUT_MS == 2

Conns == {"c1", "c2"}
Listeners == {"panel"}
\* a listener whose every call throws
Throwing == {"broken"}
AllListeners == Listeners \cup Throwing

IdName == <<"s1", "s2", "s3", "s4">>
SessionIds == {IdName[i] : i \in 1..MaxSessions}

None == "none"
PENDING == "__pending__"
endpoint == "/mcp"

\* ------------------------------------------------------------------ units

CR == [t |-> "CR"]
LF == [t |-> "LF"]
Byte == [t |-> "byte"]
StartLine(m, p) == [t |-> "start", method |-> m, path |-> p]
Hdr(k, v) == [t |-> "hdr", key |-> k, value |-> v]

\* ----------------------------------------------------------- the framer

\* Buffer.subarray(start, end): both clamped to 0..length, empty when end <= start
subarray(buf, start, end) ==
    LET clamp(i) == IF i < 0 THEN 0 ELSE IF i > Len(buf) THEN Len(buf) ELSE i
        s == clamp(start)
        e == clamp(end)
    IN  IF e <= s THEN << >> ELSE SubSeq(buf, s + 1, e)

\* buffer.indexOf('\r\n\r\n'): 0-based offset of the first separator, -1 if none
indexOfSeparator(buf) ==
    LET hits == {i \in 0..(Len(buf) - 4) :
                    /\ buf[i + 1] = CR /\ buf[i + 2] = LF
                    /\ buf[i + 3] = CR /\ buf[i + 4] = LF}
    IN  IF hits = {} THEN -1 ELSE CHOOSE i \in hits : \A j \in hits : i <= j

\* headerSection.split('\r\n')
RECURSIVE split(_)
split(sec) ==
    LET hits == {i \in 1..(Len(sec) - 1) : sec[i] = CR /\ sec[i + 1] = LF}
    IN  IF hits = {} THEN << sec >>
        ELSE LET i == CHOOSE x \in hits : \A y \in hits : x <= y
             IN  << SubSeq(sec, 1, i - 1) >> \o split(SubSeq(sec, i + 2, Len(sec)))

\* String.prototype.toLowerCase on the header names the clients send
toLowerCase(k) ==
    CASE k = "Content-Length" -> "content-length"
      [] k = "Connection" -> "connection"
      [] k = "Mcp-Session-Id" -> "mcp-session-id"
      [] k = "Keep-Alive" -> "keep-alive"
      [] OTHER -> k

\* a line of the header section: colonIdx > 0 only for a header line
colonIdx(line) == IF Len(line) = 1 /\ line[1].t = "hdr" THEN 1 ELSE -1

\* the header loop: keys lower-cased, the last occurrence of a key wins
RECURSIVE parseHeaders(_, _)
parseHeaders(lines, acc) ==
    IF lines = << >> THEN acc
    ELSE LET line == Head(lines)
             key == toLowerCase(line[1].key)
             put == [k \in DOMAIN acc \cup {key} |->
                        IF k = key THEN line[1].value ELSE acc[k]]
         IN  parseHeaders(Tail(lines), IF colonIdx(line) > 0 THEN put ELSE acc)

NoHeaders == [k \in {} |-> None]

\* headers[name], undefined (None) when absent
hget(headers, name) == IF name \in DOMAIN headers THEN headers[name] ELSE None

\* parseInt(s, 10): nan for text without leading digits
parseInt(s) ==
    CASE s = "0" -> [nan |-> FALSE, v |-> 0]
      [] s = "1" -> [nan |-> FALSE, v |-> 1]
      [] s = "2" -> [nan |-> FALSE, v |-> 2]
      [] s = "1x" -> [nan |-> FALSE, v |-> 1]
      [] OTHER -> [nan |-> TRUE, v |-> 0]

\* lines[0].split(' '): method and path of the start line
startLine(line) ==
    IF Len(line) = 1 /\ line[1].t = "start"
    THEN [ok |-> TRUE, method |-> line[1].method, path |-> line[1].path]
    ELSE [ok |-> FALSE, method |-> None, path |-> << >>]

(* One pass of the framing code at the head of the loop body.  wait: the    *)
(* buffer holds no complete request and the loop returns.                  *)
frame(buf) ==
    LET headerEnd == indexOfSeparator(buf)
        lines == split(subarray(buf, 0, headerEnd))
        first == startLine(lines[1])
        headers == parseHeaders(Tail(lines), NoHeaders)
        bodyStart == headerEnd + 4
        clText == IF hget(headers, "content-length") \in {None, ""}
                  THEN "0" ELSE hget(headers, "content-length")
        contentLength == parseInt(clText)
        requestEnd == bodyStart + contentLength.v
        \* NaN: buffer.length < NaN is false; subarray(x, NaN) and subarray(NaN)
        \* take NaN as 0
        tooShort == ~contentLength.nan /\ Len(buf) < requestEnd
        body == IF contentLength.nan THEN subarray(buf, bodyStart, 0)
                ELSE subarray(buf, bodyStart, requestEnd)
        rest == IF contentLength.nan THEN subarray(buf, 0, Len(buf))
                ELSE subarray(buf, requestEnd, Len(buf))
    IN  IF headerEnd = -1 \/ tooShort
        THEN [wait |-> TRUE]
        ELSE [wait |-> FALSE, ok |-> first.ok, method |-> first.method,
              path |-> first.path, headers |-> headers, body |-> body,
              rest |-> rest]

\* ------------------------------------------------------------------ state

VARIABLES
    \* SessionManager (lib/sessions.ts)
    sessions,           \* Map id -> Session
    timers,             \* pending setTimeout handles
    listeners,          \* Set of subscribed listeners
    heard,              \* per listener: calls received and the last list passed
    slog,               \* per id: what add/remove did for it, in order
    escaped,            \* exceptions a registry operation let through to its caller
    now,                \* the clock, in ticks
    \* createNetServer (server/net.ts)
    sessionTransports,  \* Map key -> {transport, server}
    transports,         \* per constructed transport: the id it minted, closed
    closing,            \* removal callbacks suspended at await transport.close()
    nextId,             \* ids minted so far (crypto.randomUUID never repeats)
    \* per connection (the closure of createServer's callback)
    stream,             \* all the bytes the client sends on the connection
    wire,               \* the bytes of stream not yet sent
    firstChunk,         \* size of the first chunk that arrived, 0 before it
    buffer,
    socketEnded,
    sock,               \* the Socket: writable, destroyed, write callback pending
    out,                \* writes made to the socket, in order
    hist,               \* requests framed, in order, with the route taken
    tasks,              \* processHttpRequests invocations suspended at an await
    running             \* the connection whose loop is executing, or None

regVars == << sessions, timers, listeners, heard, slog, escaped >>
gwVars == << sessionTransports, transports, closing >>
connVars == << buffer, socketEnded, sock, out, hist >>
vars == << sessions, timers, listeners, heard, slog, escaped, now, sessionTransports,
           transports, closing, nextId, stream, wire, firstChunk, buffer,
           socketEnded, sock, out, hist, tasks, running >>

NoHandle == [id |-> None, due |-> 0]
NoInst == << None, 0 >>

\* the registry and the gateway maps as one value, for the operators below
World ==
    [sessions |-> sessions, timers |-> timers, listeners |-> listeners,
     heard |-> heard, slog |-> slog, escaped |-> escaped,
     sessionTransports |-> sessionTransports,
     transports |-> transports, closing |-> closing]

SetWorld(W) ==
    /\ sessions' = W.sessions
    /\ timers' = W.timers
    /\ listeners' = W.listeners
    /\ heard' = W.heard
    /\ slog' = W.slog
    /\ escaped' = W.escaped
    /\ sessionTransports' = W.sessionTransports
    /\ transports' = W.transports
    /\ closing' = W.closing

\* Map.delete / Map.set on a function with a growing domain
mapDelete(m, k) == [x \in DOMAIN m \ {k} |-> m[x]]
mapSet(m, k, v) == [x \in DOMAIN m \cup {k} |-> IF x = k THEN v ELSE m[x]]

logged(W, id, ev) == [W EXCEPT !.slog[id] = Append(@, ev)]

\* ------------------------------------------------- SessionManager

\* getAll(): the sessions of the map
getAll(W) == DOMAIN W.sessions

\* notifyListeners(): every subscribed listener is called with getAll(), each
\* call in its own try, so what a listener throws is caught here
notifyListeners(W, cause) ==
    logged([W EXCEPT !.heard = [l \in AllListeners |->
                IF l \in W.listeners
                THEN [n |-> W.heard[l].n + 1, last |-> getAll(W)]
                ELSE W.heard[l]]],
           cause, [e |-> "notify", snap |-> getAll(W)])

\* a bug: the old handle is not cleared
resetTimeoutNoClear(W, session, t) ==
    LET h == [id |-> session.id, due |-> t + INACTIVITY_TIMEOUT_MS]
    IN  [timers |-> W.timers \cup {h},
         session |-> [session EXCEPT !.timeoutHandle = h]]

\* resetTimeout(session): clearTimeout of the old handle, then a new setTimeout
resetTimeout(W, session, t) ==
    LET h == [id |-> session.id, due |-> t + INACTIVITY_TIMEOUT_MS]
    IN  [timers |-> (W.timers \ {session.timeoutHandle}) \cup {h},
         session |-> [session EXCEPT !.timeoutHandle = h]]

\* a bug: lastActivity is set and the timer is left running as it was
updateActivityNoReset(W, sessionId, t) ==
    IF sessionId \in DOMAIN W.sessions
    THEN [W EXCEPT !.sessions[sessionId].lastActivity = t]
    ELSE W

\* updateActivity(sessionId): lastActivity = now and resetTimeout, no notification
updateActivity(W, sessionId, t) ==
    IF sessionId \in DOMAIN W.sessions
    THEN LET r == resetTimeout(W, [W.sessions[sessionId] EXCEPT !.lastActivity = t], t)
         IN  [W EXCEPT !.timers = r.timers, !.sessions[sessionId] = r.session]
    ELSE W

\* a bug: a record is inserted whether or not the id is already there
addAlways(W, sessionId, t) ==
    LET session == [id |-> sessionId, connectedAt |-> t, lastActivity |-> t,
                    timeoutHandle |-> NoHandle, clientName |-> None]
        r == resetTimeout(W, session, t)
        W1 == [W EXCEPT !.timers = r.timers,
                        !.sessions = mapSet(@, sessionId, r.session)]
    IN  notifyListeners(W1, sessionId)

add(W, sessionId, t) ==
    IF sessionId \in DOMAIN W.sessions
    THEN updateActivity(W, sessionId, t)
    ELSE LET session == [id |-> sessionId, connectedAt |-> t, lastActivity |-> t,
                         timeoutHandle |-> NoHandle, clientName |-> None]
             r == resetTimeout(W, session, t)
             W1 == [W EXCEPT !.timers = r.timers,
                             !.sessions = mapSet(@, sessionId, r.session)]
         IN  notifyListeners(W1, sessionId)

updateClientInfo(W, sessionId, clientName) ==
    IF sessionId \in DOMAIN W.sessions
    THEN notifyListeners([W EXCEPT !.sessions[sessionId].clientName = clientName],
                         sessionId)
    ELSE W

RECURSIVE remove(_, _, _)

(* onsessionclosed of a transport: the binding goes first, then the        *)
(* registry entry                                                          *)
\* a bug: the registry entry goes first, the binding after it
onsessionclosedRemoveFirst(W, closedSessionId, re) ==
    [remove(logged(W, closedSessionId, [e |-> "closed"]), closedSessionId, re)
        EXCEPT !.sessionTransports = mapDelete(@, closedSessionId)]

onsessionclosed(W, closedSessionId, re) ==
    remove([logged(W, closedSessionId, [e |-> "closed"])
               EXCEPT !.sessionTransports = mapDelete(@, closedSessionId)],
           closedSessionId, re)

(* The callback createNetServer registers with setRemovalCallback, up to   *)
(* its await: transport.close() has been called and its promise is         *)
(* pending.  re: close() signals onsessionclosed for the transport's own   *)
(* session before it returns.                                              *)
removalCallback(W, sessionId, re) ==
    IF sessionId \in DOMAIN W.sessionTransports
    THEN LET inst == W.sessionTransports[sessionId]
             own == W.transports[inst].sessionId
             W1 == [W EXCEPT !.transports[inst].closed = TRUE]
             W2 == IF re /\ own # None THEN onsessionclosed(W1, own, re) ELSE W1
         IN  [W2 EXCEPT !.closing = @ \cup {sessionId}]
    ELSE W

\* a bug: the entry is deleted and its timer is left pending
removePresentKeepTimer(W, sessionId, re) ==
    LET session == W.sessions[sessionId]
        W2 == logged([W EXCEPT !.sessions = mapDelete(@, sessionId)],
                     sessionId, [e |-> "delete", connectedAt |-> session.connectedAt,
                                 lastActivity |-> session.lastActivity])
        W3 == notifyListeners(W2, sessionId)
        W4 == logged(W3, sessionId,
                     [e |-> "callback", present |-> sessionId \in DOMAIN W3.sessions,
                      bound |-> sessionId \in DOMAIN W3.sessionTransports])
    IN  removalCallback(W4, sessionId, re)

\* the body of remove once the entry is known to exist
removePresent(W, sessionId, re) ==
    LET session == W.sessions[sessionId]
        W1 == logged([W EXCEPT !.timers = @ \ {session.timeoutHandle}],
                     sessionId, [e |-> "clearTimeout"])
        W2 == logged([W1 EXCEPT !.sessions = mapDelete(@, sessionId)],
                     sessionId, [e |-> "delete", connectedAt |-> session.connectedAt,
                                 lastActivity |-> session.lastActivity])
        W3 == notifyListeners(W2, sessionId)
        W4 == logged(W3, sessionId,
                     [e |-> "callback", present |-> sessionId \in DOMAIN W3.sessions,
                      bound |-> sessionId \in DOMAIN W3.sessionTransports])
    IN  removalCallback(W4, sessionId, re)

\* a bug: subscribers are told before the entry is deleted
removeNotifyBeforeDelete(W, sessionId, re) ==
    IF sessionId \notin DOMAIN W.sessions
    THEN logged(W, sessionId, [e |-> "noop"])
    ELSE LET session == W.sessions[sessionId]
             W1 == logged([W EXCEPT !.timers = @ \ {session.timeoutHandle}],
                          sessionId, [e |-> "clearTimeout"])
             W2 == notifyListeners(W1, sessionId)
             W3 == logged([W2 EXCEPT !.sessions = mapDelete(@, sessionId)],
                          sessionId, [e |-> "delete", connectedAt |-> session.connectedAt,
                                      lastActivity |-> session.lastActivity])
             W4 == logged(W3, sessionId,
                          [e |-> "callback", present |-> sessionId \in DOMAIN W3.sessions,
                      bound |-> sessionId \in DOMAIN W3.sessionTransports])
         IN  removalCallback(W4, sessionId, re)

\* a bug: no early return for an absent id
removeNotIdempotent(W, sessionId, re) ==
    IF sessionId \notin DOMAIN W.sessions
    THEN removalCallback(
             logged(notifyListeners(W, sessionId), sessionId,
                    [e |-> "callback", present |-> FALSE,
                     bound |-> sessionId \in DOMAIN W.sessionTransports]),
             sessionId, re)
    ELSE removePresent(W, sessionId, re)

remove(W, sessionId, re) ==
    IF sessionId \notin DOMAIN W.sessions
    THEN logged(W, sessionId, [e |-> "noop"])
    ELSE removePresent(W, sessionId, re)

\* a bug: the listener is added but not called
subscribeSilent(W, l) == [W EXCEPT !.listeners = @ \cup {l}]

(* subscribe(listener): added, then called at once with getAll(), outside  *)
(* any try: what the listener throws reaches the caller                    *)
subscribe(W, l) ==
    [W EXCEPT !.listeners = @ \cup {l},
              !.heard[l] = [n |-> @.n + 1, last |-> getAll(W)],
              !.escaped = IF l \in Throwing THEN @ + 1 ELSE @]

\* the function subscribe returns
unsubscribe(W, l) == [W EXCEPT !.listeners = @ \ {l}]

(* clear(): clearTimeout for every session of the map, then the map and    *)
(* the listener set are emptied                                            *)
\* a bug: the map is emptied and the timers are left pending
clearKeepTimers(W) ==
    [W EXCEPT !.sessions = [x \in {} |-> None],
              !.listeners = {}]

\* clear(): clearTimeout for every session, sessions.clear(), listeners.clear()
clear(W) ==
    [W EXCEPT !.timers = @ \ {W.sessions[id].timeoutHandle : id \in DOMAIN W.sessions},
              !.sessions = [x \in {} |-> None],
              !.listeners = {}]

\* ------------------------------------------------- the socket and its writes

Conn(c) ==
    [buffer |-> buffer[c], socketEnded |-> socketEnded[c], sock |-> sock[c],
     out |-> out[c]]

SetConn(c, K) ==
    /\ buffer' = [buffer EXCEPT ![c] = K.buffer]
    /\ socketEnded' = [socketEnded EXCEPT ![c] = K.socketEnded]
    /\ sock' = [sock EXCEPT ![c] = K.sock]
    /\ out' = [out EXCEPT ![c] = K.out]

getStatusText(status) ==
    CASE status = 200 -> "OK"
      [] status = 201 -> "Created"
      [] status = 204 -> "No Content"
      [] status = 400 -> "Bad Request"
      [] status = 404 -> "Not Found"
      [] status = 405 -> "Method Not Allowed"
      [] status = 409 -> "Conflict"
      [] status = 500 -> "Internal Server Error"
      [] OTHER -> "Unknown"

TextBody(s) == [kind |-> "text", v |-> s, bytes |-> << >>]
JsonBody(s) == [kind |-> "json", v |-> s, bytes |-> << >>]
BytesBody(b) == [kind |-> "bytes", v |-> "", bytes |-> b]

NotFoundBody == TextBody("Not Found")
\* JSON.stringify of the objects the code builds
SessionErrorBody ==
    JsonBody("{\"jsonrpc\":\"2.0\",\"error\":{\"code\":-32600,\"message\":\"Session expired or not found. Please reconnect.\"},\"id\":null}")
InternalErrorBody == JsonBody("{\"error\":\"Internal server error\"}")
HandlerErrorBody == JsonBody("{\"error\":\"Error: boom\"}")
\* webResponse.text() of a buffered answer of the transport
ResultBody == JsonBody("{\"jsonrpc\":\"2.0\",\"result\":{},\"id\":1}")

\* Buffer.byteLength of the bodies above
byteLength(body) ==
    CASE body = NotFoundBody -> 9
      [] body = SessionErrorBody -> 111
      [] body = InternalErrorBody -> 33
      [] body = HandlerErrorBody -> 23
      [] body = ResultBody -> 36
      [] OTHER -> 0

\* socket.write(data): what reaches the socket, and the flag as it stood
write(K, n, kind, status, headers, body, raw) ==
    [K EXCEPT !.out = Append(@, [n |-> n, kind |-> kind, status |-> status,
                                 text |-> getStatusText(status),
                                 headers |-> headers, body |-> body, raw |-> raw,
                                 ended |-> K.socketEnded,
                                 writable |-> K.sock.writable /\ ~K.sock.destroyed])]

\* socket.end()
end(K) == [K EXCEPT !.sock.writable = FALSE]

unwritable(K) == K.socketEnded \/ K.sock.destroyed \/ ~K.sock.writable

sendResponse(K, n, status, headers, body, connection) ==
    IF unwritable(K)
    THEN K
    ELSE LET keepAlive == connection # None /\ toLowerCase(connection) = "keep-alive"
             h1 == mapSet(headers, "content-length", ToString(byteLength(body)))
             h2 == mapSet(h1, "connection", IF keepAlive THEN "keep-alive" ELSE "close")
             h3 == IF "date" \in DOMAIN h2 THEN h2 ELSE mapSet(h2, "date", "toUTCString")
             K1 == write(K, n, "response", status, h3, body, << >>)
         IN  IF ~keepAlive
             THEN [K1 EXCEPT !.socketEnded = TRUE, !.sock.flush = TRUE]
             ELSE K1

sendSSEHeaders(K, n, status, headers) ==
    IF unwritable(K)
    THEN K
    ELSE LET h1 == mapDelete(headers, "content-length")
             h2 == mapSet(h1, "cache-control", "no-cache")
             h3 == mapSet(h2, "connection", "keep-alive")
         IN  write(K, n, "sse-headers", status, h3, BytesBody(<< >>), << >>)

\* ------------------------------------------------- TextDecoder / UTF-8

(* Bytes: "a" a one-byte character, "L" "T" the two bytes of one           *)
(* character.  decoder.decode(value, {stream: true}) keeps an unfinished   *)
(* character for the next call; a byte that cannot be decoded becomes      *)
(* U+FFFD.                                                                 *)
RECURSIVE decodeAll(_)
decodeAll(bytes) ==
    IF bytes = << >> THEN [text |-> << >>, carry |-> << >>]
    ELSE IF bytes[1] = "a"
         THEN LET r == decodeAll(Tail(bytes))
              IN  [text |-> << "a" >> \o r.text, carry |-> r.carry]
    ELSE IF bytes[1] = "L" /\ Len(bytes) = 1
         THEN [text |-> << >>, carry |-> << "L" >>]
    ELSE IF bytes[1] = "L" /\ bytes[2] = "T"
         THEN LET r == decodeAll(Tail(Tail(bytes)))
              IN  [text |-> << "LT" >> \o r.text, carry |-> r.carry]
    ELSE LET r == decodeAll(Tail(bytes))
         IN  [text |-> << "FFFD" >> \o r.text, carry |-> r.carry]

decode(carry, value) == decodeAll(carry \o value)

\* socket.write(string): the string's UTF-8 bytes
RECURSIVE encode(_)
encode(text) ==
    IF text = << >> THEN << >>
    ELSE (CASE text[1] = "a" -> << "a" >>
            [] text[1] = "LT" -> << "L", "T" >>
            [] OTHER -> << "EF", "BF", "BD" >>) \o encode(Tail(text))

\* ------------------------------------------------- routing

truthy(v) == v \notin {None, ""}

\* path.split('?')[0]: the path up to its first '?'
RECURSIVE pathWithoutQuery(_)
pathWithoutQuery(path) ==
    IF path = << >> \/ path[1] = "?" THEN << >>
    ELSE << path[1] >> \o pathWithoutQuery(Tail(path))

\* the endpoint check: the endpoint itself, a sub-path or a query of it
endpointMatches(path) ==
    \/ pathWithoutQuery(path) = << endpoint >>
    \/ Len(path) >= 2 /\ path[1] = endpoint /\ path[2] = "/"
    \/ Len(path) >= 2 /\ path[1] = endpoint /\ path[2] = "?"

Task(c, n, pc, inst, f) ==
    [c |-> c, n |-> n, pc |-> pc, inst |-> inst,
     sessionId |-> hget(f.headers, "mcp-session-id"),
     connection |-> hget(f.headers, "connection"),
     resp |-> [status |-> 0, headers |-> NoHeaders],
     read |-> << >>, carry |-> << >>]

Json200 == [status |-> 200, headers |-> ("content-type" :> "application/json")]
EventStream ==
    [status |-> 200, headers |-> ("content-type" :> "text/event-stream"
                                  @@ "content-length" :> "5")]

\* what the opaque transport may answer
HandlerResponses == {Json200, EventStream}

\* contentType.includes('text/event-stream')
isEventStream(headers) == hget(headers, "content-type") = "text/event-stream"

\* chunks an event-stream body may yield
BodyChunks == { << "a" >>, << "a", "L" >>, << "T" >> }

\* ------------------------------------------------- what the clients send

RECURSIVE headerLines(_)
headerLines(hs) ==
    IF hs = << >> THEN << >> ELSE << hs[1], CR, LF >> \o headerLines(Tail(hs))

\* start line, header lines, the empty line, the body
Req(start, hs, body) == << start, CR, LF >> \o headerLines(hs) \o << CR, LF >> \o body

POST == StartLine("POST", << endpoint >>)
KeepAlive == Hdr("Connection", "keep-alive")
SessionHdr(id) == Hdr("Mcp-Session-Id", id)

\* no session header, keep-alive, a one-byte body
reqInit == Req(POST, << KeepAlive, Hdr("Content-Length", "1") >>, << Byte >>)
\* the same without a body
reqOpen == Req(POST, << KeepAlive >>, << >>)
\* a request of session id, keep-alive
reqOf(id) == Req(POST, << SessionHdr(id), KeepAlive >>, << >>)
\* no connection header: the response closes the connection
reqLast == Req(POST, << >>, << >>)

\* the gateway's clients
Streams ==
    { reqOpen \o reqOf("s1"),
      reqOpen \o reqOf(PENDING),
      reqOpen,
      << >> }

\* the clients of one connection
ConnStreams ==
    { reqOpen \o reqLast \o << POST, CR >>,
      reqLast \o reqOpen }

\* the clients of the registry
SessionStreams ==
    { reqOpen \o reqOf("s1"),
      reqOpen }

\* the streams the framer is given
FramerStreams ==
    { reqInit \o reqOf("s1") \o << POST, CR >>,
      reqLast \o reqInit,
      reqOpen \o reqLast \o << POST, CR, LF, CR >> }

\* requests whose answer is decided before the handler: other paths, other
\* connection headers, a start line without a path
reqElsewhere == Req(StartLine("GET", << "/other" >>), << KeepAlive >>, << >>)
reqQuery ==
    Req(StartLine("POST", << endpoint, "?", "q" >>),
        << Hdr("Connection", "Keep-Alive") >>, << >>)
reqSubPath ==
    Req(StartLine("POST", << endpoint, "/", "x" >>), << Hdr("Connection", "close") >>, << >>)
reqLookalike == Req(StartLine("POST", << "/mcpx" >>), << >>, << >>)
reqNoPath == << Byte, CR, LF >> \o headerLines(<< KeepAlive >>) \o << CR, LF >>

\* the streams the routing is given
RouteStreams ==
    { reqElsewhere \o reqQuery \o reqSubPath,
      reqLookalike \o reqOpen,
      reqNoPath \o reqOpen,
      reqOf("s1") \o reqLast }

\* requests without a usable content-length: none, an empty one, one that is
\* no number (to another path, no connection header)
reqEmptyLength == Req(POST, << KeepAlive, Hdr("Content-Length", "") >>, << >>)
reqBadLength ==
    Req(StartLine("GET", << "/other" >>), << Hdr("Content-Length", "abc") >>, << >>)

\* the same on a connection that is kept alive
reqLoop ==
    Req(StartLine("GET", << "/other" >>),
        << KeepAlive, Hdr("Content-Length", "abc") >>, << >>)

\* a GET that declares a body and sends none
reqGetLength ==
    Req(StartLine("GET", << endpoint >>),
        << KeepAlive, Hdr("Content-Length", "1") >>, << >>)

\* the streams the body length is read from
LengthStreams ==
    { reqOpen \o reqLast,
      reqEmptyLength \o reqInit,
      reqBadLength \o reqLast,
      reqLoop \o reqLast,
      reqOpen \o reqGetLength }

\* ------------------------------------------------------------------ Init

InitWith(wires) ==
    /\ sessions = [x \in {} |-> None]
    /\ timers = {}
    /\ listeners = {}
    /\ heard = [l \in AllListeners |-> [n |-> 0, last |-> {}]]
    /\ slog = [id \in SessionIds |-> << >>]
    /\ escaped = 0
    /\ now = 0
    /\ sessionTransports = [x \in {} |-> NoInst]
    /\ transports = [x \in {} |-> None]
    /\ closing = {}
    /\ nextId = 0
    /\ stream \in wires
    /\ wire = stream
    /\ firstChunk = [c \in Conns |-> 0]
    /\ buffer = [c \in Conns |-> << >>]
    /\ socketEnded = [c \in Conns |-> FALSE]
    /\ sock = [c \in Conns |-> [writable |-> TRUE, destroyed |-> FALSE, flush |-> FALSE]]
    /\ out = [c \in Conns |-> << >>]
    /\ hist = [c \in Conns |-> << >>]
    /\ tasks = {}
    /\ running = None

\* ------------------------------------------------- socket events

(* socket.on('data'): the chunk is dropped once socketEnded is set,        *)
(* otherwise appended, and a new processHttpRequests() starts.             *)
Data(c, k) ==
    /\ running = None
    /\ ~sock[c].destroyed
    /\ k \in 1..Len(wire[c])
    /\ wire' = [wire EXCEPT ![c] = SubSeq(@, k + 1, Len(@))]
    /\ firstChunk' = [firstChunk EXCEPT ![c] = IF @ = 0 THEN k ELSE @]
    /\ IF socketEnded[c]
       THEN UNCHANGED << buffer, running >>
       ELSE /\ buffer' = [buffer EXCEPT ![c] = @ \o SubSeq(wire[c], 1, k)]
            /\ running' = c
    /\ UNCHANGED << regVars, now, gwVars, nextId, stream, socketEnded, sock, out,
                    hist, tasks >>

(* The socket goes down: socket.on('error') destroys it, and               *)
(* socket.on('close') clears the buffer.                                   *)
SocketClose(c) ==
    /\ running = None
    /\ ~sock[c].destroyed
    /\ sock' = [sock EXCEPT ![c].destroyed = TRUE, ![c].writable = FALSE]
    /\ buffer' = [buffer EXCEPT ![c] = << >>]
    /\ UNCHANGED << regVars, now, gwVars, nextId, stream, wire, firstChunk, socketEnded, out, hist,
                    tasks, running >>

(* The peer ends its side: the socket, not half-open, ends its own side    *)
(* too and is no longer writable; it is destroyed later.                   *)
PeerEnd(c) ==
    /\ running = None
    /\ sock[c].writable
    /\ ~sock[c].destroyed
    /\ sock' = [sock EXCEPT ![c].writable = FALSE]
    /\ UNCHANGED << regVars, now, gwVars, nextId, stream, wire, firstChunk, buffer, socketEnded,
                    out, hist, tasks, running >>

\* the callback of sock.write(response, () => sock.end())
Flushed(c) ==
    /\ running = None
    /\ sock[c].flush
    /\ sock' = [sock EXCEPT ![c].flush = FALSE, ![c].writable = FALSE]
    /\ UNCHANGED << regVars, now, gwVars, nextId, stream, wire, firstChunk, buffer, socketEnded, out,
                    hist, tasks, running >>

\* ------------------------------------------------- processHttpRequests

Route(f, W) ==
    LET sessionId == hget(f.headers, "mcp-session-id")
    IN  IF ~f.ok THEN "reject"
        ELSE IF ~endpointMatches(f.path) THEN "404"
        ELSE IF truthy(sessionId) /\ sessionId \notin DOMAIN W.sessionTransports THEN "409"
        ELSE IF ~truthy(sessionId) THEN "new"
        ELSE "reuse"

(* One iteration of the while loop, from its head to the first await, to a *)
(* continue or to a return.                                                *)
processHttpRequests(c) ==
    /\ running = c
    /\ LET K == Conn(c)
           f == frame(K.buffer)
           n == Len(hist[c]) + 1
           K1 == [K EXCEPT !.buffer = f.rest]
           route == Route(f, World)
           sessionId == hget(f.headers, "mcp-session-id")
           connection == hget(f.headers, "connection")
           entry == [method |-> f.method, path |-> f.path, headers |-> f.headers,
                     body |-> f.body, route |-> route,
                     live |-> sessionId \in DOMAIN sessions,
                     inst |-> IF route = "reuse" THEN sessionTransports[sessionId]
                              ELSE IF route = "new" THEN << c, n >> ELSE NoInst]
       IN  IF unwritable(K) \/ f.wait
           THEN /\ running' = None
                /\ UNCHANGED << regVars, gwVars, connVars, tasks >>
           ELSE /\ hist' = [hist EXCEPT ![c] = Append(@, entry)]
                /\ CASE route = "reject" ->
                          \* a TypeError outside the try: the promise rejects and
                          \* the catch of socket.on('data') answers
                          /\ SetConn(c, IF K1.sock.destroyed THEN K1
                                        ELSE sendResponse(K1, n, 500,
                                                 ("content-type" :> "application/json"),
                                                 InternalErrorBody, None))
                          /\ running' = None
                          /\ UNCHANGED << regVars, gwVars, tasks >>
                     [] route = "404" ->
                          /\ SetConn(c, sendResponse(K1, n, 404,
                                            ("content-type" :> "text/plain"),
                                            NotFoundBody, connection))
                          /\ UNCHANGED << regVars, gwVars, tasks, running >>
                     [] route = "409" ->
                          /\ SetConn(c, sendResponse(K1, n, 409,
                                            ("content-type" :> "application/json"),
                                            SessionErrorBody, connection))
                          /\ UNCHANGED << regVars, gwVars, tasks, running >>
                     [] route = "new" ->
                          \* a new McpServer and transport; await sessionServer.connect
                          /\ SetConn(c, K1)
                          /\ transports' = mapSet(transports, << c, n >>,
                                                  [sessionId |-> None, closed |-> FALSE])
                          /\ tasks' = tasks \cup {Task(c, n, "connect", << c, n >>, f)}
                          /\ running' = None
                          /\ UNCHANGED << regVars, sessionTransports, closing >>
                     [] route = "reuse" ->
                          \* updateActivity, then await transport.handleRequest
                          /\ SetConn(c, K1)
                          /\ SetWorld(updateActivity(World, sessionId, now))
                          /\ tasks' = tasks \cup
                                 {Task(c, n, "handle", sessionTransports[sessionId], f)}
                          /\ running' = None
    /\ UNCHANGED << now, nextId, stream, wire, firstChunk >>

\* the request of task t is done: its invocation goes on with the loop
Finish(t) ==
    /\ tasks' = tasks \ {t}
    /\ running' = t.c

Suspended(t, pc) ==
    /\ running = None
    /\ t \in tasks
    /\ t.pc = pc

(* await sessionServer.connect(transport) returns: the new pair is stored  *)
(* under the placeholder key and transport.handleRequest is called.        *)
ConnectDone(t) ==
    /\ Suspended(t, "connect")
    /\ IF ~truthy(t.sessionId)
       THEN SetWorld([World EXCEPT !.sessionTransports = mapSet(@, PENDING, t.inst)])
       ELSE SetWorld(updateActivity(World, t.sessionId, now))
    /\ tasks' = (tasks \ {t}) \cup {[t EXCEPT !.pc = "handle"]}
    /\ UNCHANGED << now, nextId, stream, wire, firstChunk, connVars, running >>

(* onsessioninitialized(newSessionId), called by a transport that mints    *)
(* its id while it handles a request.                                      *)
onsessioninitialized(W, newSessionId, t) ==
    LET W1 == add(W, newSessionId, t)
    IN  IF PENDING \in DOMAIN W1.sessionTransports
        THEN LET sess == W1.sessionTransports[PENDING]
             IN  [W1 EXCEPT !.sessionTransports =
                                mapSet(mapDelete(@, PENDING), newSessionId, sess)]
        ELSE W1

HandlerMint(t) ==
    /\ Suspended(t, "handle")
    /\ transports[t.inst].sessionId = None
    /\ ~transports[t.inst].closed
    /\ nextId < MaxSessions
    /\ LET newSessionId == IdName[nextId + 1]
       IN  SetWorld(onsessioninitialized(
                        [World EXCEPT !.transports[t.inst].sessionId = newSessionId],
                        newSessionId, now))
    /\ nextId' = nextId + 1
    /\ UNCHANGED << now, stream, wire, firstChunk, connVars, tasks, running >>

\* the transport handles a DELETE of its session: onsessionclosed(own id)
HandlerSessionClosed(t) ==
    /\ Suspended(t, "handle")
    /\ transports[t.inst].sessionId # None
    /\ ~transports[t.inst].closed
    /\ SetWorld(onsessionclosed([World EXCEPT !.transports[t.inst].closed = TRUE],
                                transports[t.inst].sessionId, FALSE))
    /\ UNCHANGED << now, nextId, stream, wire, firstChunk, connVars, tasks, running >>

\* the finally of the event-stream pump: socketEnded = true; socket.end()
endStream(K) == end([K EXCEPT !.socketEnded = TRUE])

(* await transport.handleRequest returns r: an event stream gets its       *)
(* headers written and the pump started, anything else awaits text().      *)
HandlerReturn(t, r) ==
    /\ Suspended(t, "handle")
    /\ r \in HandlerResponses
    /\ LET K == Conn(t.c)
           K1 == sendSSEHeaders(K, t.n, r.status, r.headers)
       IN  IF isEventStream(r.headers)
           THEN IF unwritable(K1)
                THEN SetConn(t.c, endStream(K1)) /\ Finish(t)
                ELSE /\ SetConn(t.c, K1)
                     /\ tasks' = (tasks \ {t}) \cup {[t EXCEPT !.pc = "read", !.resp = r]}
                     /\ UNCHANGED running
           ELSE /\ tasks' = (tasks \ {t}) \cup {[t EXCEPT !.pc = "text", !.resp = r]}
                /\ UNCHANGED << buffer, socketEnded, sock, out, running >>
    /\ UNCHANGED << regVars, now, gwVars, nextId, stream, wire, firstChunk, hist >>

\* handleRequest rejects: the catch answers 500
HandlerThrow(t) ==
    /\ Suspended(t, "handle")
    /\ SetConn(t.c, sendResponse(Conn(t.c), t.n, 500,
                                 ("content-type" :> "application/json"),
                                 HandlerErrorBody, t.connection))
    /\ Finish(t)
    /\ UNCHANGED << regVars, now, gwVars, nextId, stream, wire, firstChunk, hist >>

\* await webResponse.text() returns: the buffered response is sent
TextDone(t) ==
    /\ Suspended(t, "text")
    /\ SetConn(t.c, sendResponse(Conn(t.c), t.n, t.resp.status, t.resp.headers,
                                 ResultBody, t.connection))
    /\ Finish(t)
    /\ UNCHANGED << regVars, now, gwVars, nextId, stream, wire, firstChunk, hist >>

\* one turn of the pump after reader.read() yields value
pump(K, t, value) ==
    write(K, t.n, "chunk", t.resp.status, NoHeaders,
          BytesBody(encode(decode(t.carry, value).text)), value)

(* await reader.read() yields a chunk: it is decoded and written, and the  *)
(* pump checks the socket before it reads again.                           *)
ReadChunk(t, value) ==
    /\ Suspended(t, "read")
    /\ Len(t.read) < MaxChunks
    /\ value \in BodyChunks
    /\ (value[1] = "T") = (t.carry # << >>)
    /\ LET K1 == pump(Conn(t.c), t, value)
       IN  IF unwritable(K1)
           THEN SetConn(t.c, endStream(K1)) /\ Finish(t)
           ELSE /\ SetConn(t.c, K1)
                /\ tasks' = (tasks \ {t}) \cup
                       {[t EXCEPT !.read = Append(@, value),
                                  !.carry = decode(t.carry, value).carry]}
                /\ UNCHANGED running
    /\ UNCHANGED << regVars, now, gwVars, nextId, stream, wire, firstChunk, hist >>

\* reader.read() reports done, or rejects: the finally ends the connection
ReadEnd(t) ==
    /\ Suspended(t, "read")
    /\ SetConn(t.c, endStream(Conn(t.c)))
    /\ Finish(t)
    /\ UNCHANGED << regVars, now, gwVars, nextId, stream, wire, firstChunk, hist >>

\* ------------------------------------------------- timers and the registry

\* the setTimeout callback of resetTimeout: this.remove(session.id)
TimerFire(h, re) ==
    /\ running = None
    /\ h \in timers
    /\ h.due <= now
    /\ SetWorld(remove(logged([World EXCEPT !.timers = @ \ {h}], h.id,
                              [e |-> "timeout", due |-> h.due]),
                       h.id, re))
    /\ UNCHANGED << now, nextId, stream, wire, firstChunk, connVars, tasks, running >>

\* a timer fires at its deadline: the clock does not pass a pending one
Tick ==
    /\ running = None
    /\ now < MaxTime
    /\ timers # {}
    /\ \A h \in timers : h.due > now
    /\ now' = now + 1
    /\ UNCHANGED << regVars, gwVars, nextId, stream, wire, firstChunk, connVars, tasks, running >>

\* the removal callback after await transport.close(): its finally
CloseDone(sessionId) ==
    /\ running = None
    /\ sessionId \in closing
    /\ SetWorld([World EXCEPT !.sessionTransports = mapDelete(@, sessionId),
                              !.closing = @ \ {sessionId}])
    /\ UNCHANGED << now, nextId, stream, wire, firstChunk, connVars, tasks, running >>

\* the panel subscribes when it is mounted
Subscribe(l) ==
    /\ running = None
    /\ l \notin listeners
    /\ heard[l].n = 0
    /\ SetWorld(subscribe(World, l))
    /\ UNCHANGED << now, nextId, stream, wire, firstChunk, connVars, tasks, running >>

Unsubscribe(l) ==
    /\ running = None
    /\ l \in listeners
    /\ SetWorld(unsubscribe(World, l))
    /\ UNCHANGED << now, nextId, stream, wire, firstChunk, connVars, tasks, running >>

\* ------------------------------------------------- callers of the registry

\* the log of id has room for one more call
Room(id) == Len(slog[id]) < MaxLog

\* sessionManager.add(sessionId)
Add(sessionId) ==
    /\ running = None
    /\ Room(sessionId)
    /\ SetWorld(add(logged(World, sessionId,
                           [e |-> "add", existed |-> sessionId \in DOMAIN sessions]),
                    sessionId, now))
    /\ UNCHANGED << now, nextId, stream, wire, firstChunk, connVars, tasks, running >>

\* sessionManager.remove(sessionId)
Remove(sessionId) ==
    /\ running = None
    /\ Room(sessionId)
    /\ SetWorld(remove(World, sessionId, FALSE))
    /\ UNCHANGED << now, nextId, stream, wire, firstChunk, connVars, tasks, running >>

\* sessionManager.updateActivity(sessionId)
UpdateActivity(sessionId) ==
    /\ running = None
    /\ SetWorld(updateActivity(World, sessionId, now))
    /\ UNCHANGED << now, nextId, stream, wire, firstChunk, connVars, tasks, running >>

\* sessionManager.updateClientInfo(sessionId, clientName)
UpdateClientInfo(sessionId, clientName) ==
    /\ running = None
    /\ Room(sessionId)
    /\ sessionId \in DOMAIN sessions => sessions[sessionId].clientName # clientName
    /\ SetWorld(updateClientInfo(World, sessionId, clientName))
    /\ UNCHANGED << now, nextId, stream, wire, firstChunk, connVars, tasks, running >>

\* sessionManager.clear()
Clear ==
    /\ running = None
    /\ \A id \in SessionIds : Room(id)
    /\ SetWorld(clear([World EXCEPT !.slog = [id \in SessionIds |->
                           Append(slog[id],
                                  [e |-> "clear", existed |-> id \in DOMAIN sessions])]]))
    /\ UNCHANGED << now, nextId, stream, wire, firstChunk, connVars, tasks, running >>

\* ------------------------------------------------------------------ Next

\* the bytes left in a buffer once every complete request is framed
RECURSIVE drain(_)
drain(buf) == IF frame(buf).wait \/ frame(buf).rest = buf THEN buf ELSE drain(frame(buf).rest)

\* chunk sizes of a client that writes whole requests (or all that is left)
wholeCuts(w) == {k \in 1..Len(w) : drain(SubSeq(w, 1, k)) = << >> \/ k = Len(w)}

\* the gateway: two connections, whole requests, sessions minted and closed
Init == InitWith({w \in [Conns -> Streams] : w["c2"] \in {reqOpen, << >>}})

Next ==
    \/ \E c \in Conns : \E k \in wholeCuts(wire[c]) : Data(c, k)
    \/ \E c \in Conns : processHttpRequests(c)
    \/ \E t \in tasks : ConnectDone(t)
    \/ \E t \in tasks : HandlerMint(t)
    \/ \E t \in tasks : HandlerSessionClosed(t)
    \/ \E t \in tasks : HandlerReturn(t, Json200)
    \/ \E t \in tasks : HandlerThrow(t)
    \/ \E t \in tasks : TextDone(t)
    \/ \E h \in timers : \E re \in BOOLEAN : TimerFire(h, re)
    \/ Tick
    \/ \E id \in closing : CloseDone(id)

Spec == Init /\ [][Next]_vars

\* one connection: buffered and streamed answers, the socket going down
InitConn == InitWith({w \in [Conns -> ConnStreams \cup {<< >>}] : w["c2"] = << >>})

NextConn ==
    \/ \E c \in Conns : \E k \in wholeCuts(wire[c]) : Data(c, k)
    \/ \E c \in Conns : processHttpRequests(c)
    \/ \E c \in Conns : SocketClose(c)
    \/ \E c \in Conns : Flushed(c)
    \/ \E t \in tasks : ConnectDone(t)
    \/ \E t \in tasks : \E r \in HandlerResponses : HandlerReturn(t, r)
    \/ \E t \in tasks : HandlerThrow(t)
    \/ \E t \in tasks : TextDone(t)
    \/ \E t \in tasks : \E value \in BodyChunks : ReadChunk(t, value)
    \/ \E t \in tasks : ReadEnd(t)

SpecConn == InitConn /\ [][NextConn]_vars

\* the registry under the clock: sessions are minted, used, closed and time out
InitSessions ==
    InitWith({w \in [Conns -> SessionStreams \cup {<< >>}] :
                 w["c1"] # << >> /\ Len(w["c2"]) <= Len(reqOpen)})

NextSessions ==
    \/ \E c \in Conns : \E k \in wholeCuts(wire[c]) : Data(c, k)
    \/ \E c \in Conns : processHttpRequests(c)
    \/ \E t \in tasks : ConnectDone(t)
    \/ \E t \in tasks : HandlerMint(t)
    \/ \E t \in tasks : HandlerSessionClosed(t)
    \/ \E t \in tasks : HandlerReturn(t, Json200)
    \/ \E t \in tasks : TextDone(t)
    \/ \E h \in timers : \E re \in BOOLEAN : TimerFire(h, re)
    \/ Tick
    \/ \E id \in closing : CloseDone(id)
    \/ \E l \in Listeners : Subscribe(l)

SpecSessions == InitSessions /\ [][NextSessions]_vars

\* the framer: one connection, the stream split at every unit
InitFramer == InitWith({w \in [Conns -> FramerStreams \cup {<< >>}] :
                            w["c1"] # << >> /\ w["c2"] = << >>})

NextFramer ==
    \/ \E c \in Conns : \E k \in 1..Len(wire[c]) : Data(c, k)
    \/ \E c \in Conns : processHttpRequests(c)
    \/ \E c \in Conns : Flushed(c)
    \/ \E t \in tasks : ConnectDone(t)
    \/ \E t \in tasks : HandlerReturn(t, Json200)
    \/ \E t \in tasks : HandlerThrow(t)
    \/ \E t \in tasks : TextDone(t)

SpecFramer == InitFramer /\ [][NextFramer]_vars

\* one connection, the stream split at every unit, requests with and without
\* a content-length
InitLength == InitWith({w \in [Conns -> LengthStreams \cup {<< >>}] :
                            w["c1"] # << >> /\ w["c2"] = << >>})

NextLength ==
    \/ \E c \in Conns : \E k \in 1..Len(wire[c]) : Data(c, k)
    \/ \E c \in Conns : Len(hist[c]) < MaxFramed /\ processHttpRequests(c)
    \/ \E c \in Conns : Flushed(c)
    \/ \E t \in tasks : ConnectDone(t)
    \/ \E t \in tasks : HandlerReturn(t, Json200)
    \/ \E t \in tasks : TextDone(t)

SpecLength == InitLength /\ [][NextLength]_vars

\* one connection whose requests are answered with and without the handler
InitRoute == InitWith({w \in [Conns -> RouteStreams \cup {<< >>}] :
                          w["c1"] # << >> /\ w["c2"] = << >>})

NextRoute ==
    \/ \E c \in Conns : \E k \in wholeCuts(wire[c]) : Data(c, k)
    \/ \E c \in Conns : processHttpRequests(c)
    \/ \E c \in Conns : PeerEnd(c)
    \/ \E c \in Conns : SocketClose(c)
    \/ \E c \in Conns : Flushed(c)
    \/ \E t \in tasks : ConnectDone(t)
    \/ \E t \in tasks : HandlerReturn(t, Json200)
    \/ \E t \in tasks : HandlerThrow(t)
    \/ \E t \in tasks : TextDone(t)

SpecRoute == InitRoute /\ [][NextRoute]_vars

\* the registry alone, called through its public operations
InitRegistry == InitWith({[c \in Conns |-> << >>]})

NextRegistry ==
    \/ \E id \in SessionIds : Add(id)
    \/ \E id \in SessionIds : Remove(id)
    \/ UpdateActivity("s1")
    \/ UpdateClientInfo("s1", "client")
    \/ \E l \in Listeners : Subscribe(l)
    \/ \E l \in Listeners : Unsubscribe(l)
    \/ Clear
    \/ \E h \in timers : TimerFire(h, FALSE)
    \/ Tick

SpecRegistry == InitRegistry /\ [][NextRegistry]_vars


\* the registry with a listener that throws among its subscribers
NextFaults ==
    \/ \E id \in SessionIds : Add(id)
    \/ \E id \in SessionIds : Remove(id)
    \/ UpdateClientInfo("s1", "client")
    \/ \E l \in AllListeners : Subscribe(l)
    \/ \E l \in AllListeners : Unsubscribe(l)

SpecFaults == InitRegistry /\ [][NextFaults]_vars

\* ------------------------------------------------- properties of the registry

\* the events logged for id, of the given kinds, in order
Events(id, kinds) == SelectSeq(slog[id], LAMBDA ev : ev.e \in kinds)

\* what remove(id) did, without the timer firings that called it
RemoveEvents(id) == Events(id, {"clearTimeout", "delete", "notify", "callback", "noop"})

\* the notifications that told subscribers id is gone
GoneNotices(id) == SelectSeq(Events(id, {"notify"}), LAMBDA ev : id \notin ev.snap)

\* every session in the registry has its timer pending, not yet overdue
C4_Pending ==
    \A id \in DOMAIN sessions :
        \E h \in timers : h.id = id /\ h = sessions[id].timeoutHandle /\ now <= h.due

\* id is deleted, announced as gone and handed to the callback at most once,
\* and exactly once when its timer has fired
C4_Once(id) ==
    /\ Len(Events(id, {"delete"})) <= 1
    /\ Len(Events(id, {"callback"})) <= 1
    /\ Len(GoneNotices(id)) <= 1
    /\ Len(Events(id, {"timeout"})) <= 1
    /\ Events(id, {"timeout"}) # << >> =>
           /\ Len(Events(id, {"delete"})) = 1
           /\ Len(Events(id, {"callback"})) = 1
           /\ Len(GoneNotices(id)) = 1
           /\ id \notin DOMAIN sessions

\* a step that removes sessions calls every subscribed listener once for each
C4_Step ==
    LET gone == DOMAIN sessions \ DOMAIN sessions'
    IN  (gone # {} /\ DOMAIN sessions' \subseteq DOMAIN sessions) =>
            \A l \in listeners :
                /\ heard'[l].n = heard[l].n + Cardinality(gone)
                /\ heard'[l].last = DOMAIN sessions'

(* C4: a session without activity in the inactivity window after its last  *)
(* activity is removed by its timer: while it is in the registry its timer  *)
(* is pending and the clock has not passed lastActivity + window.  A        *)
(* timer that fires removes the session exactly once: one delete, one       *)
(* notification of the removal, one invocation of the removal callback,     *)
(* every subscribed listener called exactly once in the step of the         *)
(* removal; a remove(id) made from inside the callback adds none of these.  *)
C4_TimeoutRemovesOnce ==
    /\ [](C4_Pending /\ \A id \in SessionIds : C4_Once(id))
    /\ [][C4_Step]_vars

\* a session removed by its timer whose callback closed the transport, which
\* called remove for the same id again, with a listener told about it all
C4_Witness ==
    \E id \in closing :
        /\ Len(Events(id, {"timeout"})) = 1
        /\ slog[id][Len(slog[id])].e = "noop"
        /\ \E l \in listeners : heard[l].n >= 3 /\ id \notin heard[l].last

(* C5: activity at time t moves the deadline of the session to t + window:  *)
(* the session is in the registry until then (the only pending timer for    *)
(* it is the one set at its last activity, so no earlier timer removes      *)
(* it), and a timer that removes it was due exactly one window after the    *)
(* last activity the session had.                                           *)
C5_ActivityResetsTimer ==
    /\ \A h \in timers :
           h.id \in DOMAIN sessions =>
               h.due = sessions[h.id].lastActivity + INACTIVITY_TIMEOUT_MS
    /\ \A id \in SessionIds :
           \A i \in DOMAIN slog[id] :
               slog[id][i].e = "timeout" =>
                   /\ i + 2 <= Len(slog[id])
                   /\ slog[id][i + 2].e = "delete"
                   /\ slog[id][i].due =
                          slog[id][i + 2].lastActivity + INACTIVITY_TIMEOUT_MS

\* a session that had activity after it connected and was removed by the
\* timer set at that activity, after its original deadline
C5_Witness ==
    \E id \in SessionIds :
        \E i \in DOMAIN slog[id] :
            /\ slog[id][i].e = "timeout"
            /\ i + 2 <= Len(slog[id])
            /\ slog[id][i + 2].e = "delete"
            /\ slog[id][i + 2].lastActivity > slog[id][i + 2].connectedAt
            /\ slog[id][i].due > slog[id][i + 2].connectedAt + INACTIVITY_TIMEOUT_MS

(* C9: remove(id) on a present id clears the timer, deletes the entry,      *)
(* then notifies subscribers with a snapshot that does not hold id, then    *)
(* invokes the removal callback, which finds id gone; no notification of    *)
(* a removal and no callback happens outside such a block, so a remove(id)  *)
(* on an absent id, also one made while id is being removed, does nothing.  *)
C9_RemoveOrder ==
    \A id \in SessionIds :
        LET r == RemoveEvents(id)
        IN  \A i \in DOMAIN r :
                /\ r[i].e = "delete" =>
                       /\ i > 1 /\ r[i - 1].e = "clearTimeout"
                       /\ i + 2 <= Len(r)
                       /\ r[i + 1].e = "notify" /\ id \notin r[i + 1].snap
                       /\ r[i + 2].e = "callback" /\ ~r[i + 2].present
                       /\ \A j \in DOMAIN r : j > i + 2 => r[j].e = "noop"
                /\ r[i].e = "callback" => i > 2 /\ r[i - 2].e = "delete"
                /\ (r[i].e = "notify" /\ id \notin r[i].snap) =>
                       i > 1 /\ r[i - 1].e = "delete"
                /\ r[i].e = "noop" => id \notin DOMAIN sessions

\* the callback of a removal called remove for the same id, while a
\* listener is subscribed
C9_Witness ==
    \E id \in SessionIds :
        LET r == RemoveEvents(id)
        IN  /\ \E i \in DOMAIN r :
                   /\ r[i].e = "delete"
                   /\ i + 3 <= Len(r)
                   /\ r[i + 3].e = "noop"
            /\ listeners # {}


\* ------------------------------------------------- properties of the gateway

\* the invocations of processHttpRequests of connection c suspended at an await
InFlight(c) == {t \in tasks : t.c = c}

\* the session header of a framed request
SessionOf(e) == hget(e.headers, "mcp-session-id")

\* the framed requests that reached the router
Routed(e) == e.route \notin {"reject", "404"}

\* what the framer emits for a request
Parsed(e) == [method |-> e.method, path |-> e.path, headers |-> e.headers, body |-> e.body]

RECURSIVE ParsedAll(_)
ParsedAll(h) == IF h = << >> THEN << >> ELSE << Parsed(h[1]) >> \o ParsedAll(Tail(h))


IsPrefix(a, b) == Len(a) <= Len(b) /\ SubSeq(b, 1, Len(a)) = a

(* C1: on one connection at most one request is in flight: a request is    *)
(* framed and dispatched only when no earlier request of the connection    *)
(* is still suspended at the handler or at the pump, whatever chunks       *)
(* arrive meanwhile.                                                       *)
C1_OneInFlight == \A c \in Conns : Cardinality(InFlight(c)) <= 1

(* C2: a request to the endpoint whose session header names an id that is  *)
(* not in the registry is rejected with 409 and goes no further: it is     *)
(* never dispatched to a new or an existing handler instance.              *)
C2_UnknownSession409 ==
    \A c \in Conns :
        \A i \in DOMAIN hist[c] :
            (Routed(hist[c][i]) /\ truthy(SessionOf(hist[c][i])) /\ ~hist[c][i].live)
                => hist[c][i].route = "409"

(* C3: a request that carries an id which a handler instance minted and    *)
(* which is still in the registry resolves to that instance, the one that  *)
(* minted the id, and is not rejected, however the requests of the         *)
(* connections interleave.                                                 *)
C3_MintedIdResolves ==
    \A c \in Conns :
        \A i \in DOMAIN hist[c] :
            (Routed(hist[c][i]) /\ truthy(SessionOf(hist[c][i])) /\ hist[c][i].live)
                => /\ hist[c][i].route = "reuse"
                   /\ transports[hist[c][i].inst].sessionId = SessionOf(hist[c][i])

(* C6: nothing is written to a socket whose connection has the ended flag  *)
(* set: every write found the flag clear.                                  *)
C6_NoWriteAfterEnded ==
    \A c \in Conns : \A i \in DOMAIN out[c] : ~out[c][i].ended

\* what the loop frames when the bytes arrive as one chunk: request after
\* request until a response closes the connection
RECURSIVE framedInOneChunk(_)
framedInOneChunk(buf) ==
    LET f == frame(buf)
        connection == hget(f.headers, "connection")
        keepAlive == connection # None /\ toLowerCase(connection) = "keep-alive"
    IN  IF f.wait \/ f.rest = buf THEN << >>
        ELSE << Parsed(f) >> \o
             (IF f.ok /\ keepAlive THEN framedInOneChunk(f.rest) ELSE << >>)

\* all bytes of connection c have arrived and nothing of it is running
Settled(c) == wire[c] = << >> /\ running = None /\ InFlight(c) = {}

(* C7: once all bytes of a stream have arrived and been processed, the     *)
(* requests framed are those framed when the stream arrives as one chunk,  *)
(* whatever the chunks and their timing were, and if the connection is     *)
(* still open the buffer holds the trailing partial request.               *)
C7_ChunkIndependence ==
    \A c \in Conns :
        Settled(c) =>
            /\ ParsedAll(hist[c]) = framedInOneChunk(stream[c])
            /\ ~socketEnded[c] => buffer[c] = drain(stream[c])

\* the first chunk of connection c held two complete requests
TwoInFirstChunk(c) ==
    /\ firstChunk[c] > 0
    /\ LET b == SubSeq(stream[c], 1, firstChunk[c])
       IN  /\ ~frame(b).wait
           /\ frame(b).rest # b
           /\ ~frame(frame(b).rest).wait

\* the buffered responses written on connection c
Responses(c) == SelectSeq(out[c], LAMBDA o : o.kind = "response")

(* C8: when the first chunk holds two complete requests, the second is     *)
(* framed only after a response to the first has been written, and the     *)
(* responses are written in the order of the requests.                     *)
C8_SecondAfterFirst ==
    \A c \in Conns :
        TwoInFirstChunk(c) =>
            /\ Len(hist[c]) >= 2 => \E i \in DOMAIN out[c] : out[c][i].n = 1
            /\ \A i, j \in DOMAIN Responses(c) :
                   i < j => Responses(c)[i].n < Responses(c)[j].n

\* the chunks the pump wrote for request n of connection c
Chunks(c, n) == SelectSeq(out[c], LAMBDA o : o.kind = "chunk" /\ o.n = n)

RECURSIVE Raws(_)
Raws(items) == IF items = << >> THEN << >> ELSE items[1].raw \o Raws(Tail(items))

RECURSIVE Written(_)
Written(items) ==
    IF items = << >> THEN << >> ELSE items[1].body.bytes \o Written(Tail(items))

\* the headers of an event stream: no content-length, no-cache, keep-alive
C10_Headers ==
    \A c \in Conns :
        \A i \in DOMAIN out[c] :
            out[c][i].kind = "sse-headers" =>
                /\ "content-length" \notin DOMAIN out[c][i].headers
                /\ out[c][i].headers["cache-control"] = "no-cache"
                /\ out[c][i].headers["connection"] = "keep-alive"

\* once the pump of an event stream is over the connection is ended
C10_Ended ==
    \A c \in Conns :
        \A i \in DOMAIN out[c] :
            (out[c][i].kind = "sse-headers" /\ ~\E t \in InFlight(c) : t.n = out[c][i].n)
                => socketEnded[c] /\ ~sock[c].writable

\* while every write found the socket writable, the bytes written are a prefix
\* of the bytes read, and all of them once the pump is over
C10_Bytes ==
    \A c \in Conns :
        \A i \in DOMAIN out[c] :
            LET items == Chunks(c, out[c][i].n)
            IN  (/\ out[c][i].kind = "sse-headers"
                 /\ \A j \in DOMAIN items : items[j].writable /\ ~items[j].ended)
                    => /\ IsPrefix(Written(items), Raws(items))
                       /\ (~\E t \in InFlight(c) : t.n = out[c][i].n)
                              => Written(items) = Raws(items)

(* C10: an event stream is sent without a content-length header; while the *)
(* socket is writable the bytes written are, in order, the bytes read from *)
(* the body, all of them once the stream is over; and the connection is    *)
(* ended once the stream is over.                                          *)
C10_StreamedBytes == C10_Headers /\ C10_Ended /\ C10_Bytes


\* ------------------------------------------------- properties of the registry's callers

\* the ids a step adds to or takes from the session map
Changed == (DOMAIN sessions' \ DOMAIN sessions) \cup (DOMAIN sessions \ DOMAIN sessions')

\* listener l is called exactly once in a step that subscribes it, with the
\* sessions of the map
C11_OnSubscribe(l) ==
    (l \notin listeners /\ l \in listeners') =>
        heard'[l] = [n |-> heard[l].n + 1, last |-> DOMAIN sessions']

\* while l stays subscribed it is called once for each id added or removed,
\* and the last call shows the sessions as they are after the step
C11_OnChange(l) ==
    (l \in listeners /\ l \in listeners' /\ Changed # {}) =>
        /\ heard'[l].n = heard[l].n + Cardinality(Changed)
        /\ heard'[l].last = DOMAIN sessions'

\* a listener that is not subscribed after the step was not called in it,
\* unless the step subscribed it
C11_AfterUnsubscribe(l) ==
    (l \notin listeners' /\ l \notin listeners) => heard'[l] = heard[l]

(* C11: subscribe calls the listener once, at once, with the current       *)
(* sessions; every add of a new id and every remove of a present id calls  *)
(* it once with the sessions as they are after the change; after its       *)
(* unsubscribe function has been called it is not called any more.         *)
C11_SubscriberCalls ==
    [][\A l \in Listeners :
           C11_OnSubscribe(l) /\ C11_OnChange(l) /\ C11_AfterUnsubscribe(l)]_vars

\* a listener that was subscribed, heard an add and a remove, was
\* unsubscribed (the registry was never cleared) and missed a later change
C11_Witness ==
    \E l \in Listeners :
        /\ l \notin listeners
        /\ heard[l].n >= 3
        /\ heard[l].last # DOMAIN sessions
        /\ \A id \in SessionIds : Events(id, {"clear"}) = << >>


\* what follows the closure signal at position i of the log of id: nothing
\* happens, or the one removal of id, whose callback finds no binding
C12_Signal(id, i) ==
    LET r == slog[id]
    IN  /\ i < Len(r)
        /\ \/ r[i + 1].e = "noop"
           \/ /\ i + 4 <= Len(r)
              /\ r[i + 1].e = "clearTimeout"
              /\ r[i + 2].e = "delete"
              /\ r[i + 3].e = "notify" /\ id \notin r[i + 3].snap
              /\ r[i + 4].e = "callback" /\ ~r[i + 4].bound
        /\ \A j \in DOMAIN r : j > i => r[j].e # "timeout"
        /\ \A j \in DOMAIN r : j > i + 4 => r[j].e \in {"closed", "noop"}

(* C12: a closure signal of the handler for id deletes the binding of id   *)
(* and removes id through remove(id): the timer of id is cancelled,        *)
(* subscribers are told once, the removal callback finds no binding (the   *)
(* transport is not closed again), and nothing but no-ops follows: no      *)
(* timer of id fires later and a further signal changes nothing.           *)
C12_ClosureSignal ==
    \A id \in SessionIds :
        (\E i \in DOMAIN slog[id] : slog[id][i].e = "closed") =>
            /\ \A i \in DOMAIN slog[id] : slog[id][i].e = "closed" => C12_Signal(id, i)
            /\ id \notin DOMAIN sessions
            /\ id \notin DOMAIN sessionTransports
            /\ \A h \in timers : h.id # id
            /\ Len(Events(id, {"delete"})) = 1
            /\ Len(GoneNotices(id)) = 1

\* a session in the registry, with a listener subscribed, is closed by its
\* handler
C12_Witness ==
    \E id \in SessionIds :
        /\ \E i \in DOMAIN slog[id] :
               /\ slog[id][i].e = "closed"
               /\ i < Len(slog[id])
               /\ slog[id][i + 1].e = "clearTimeout"
        /\ \E l \in listeners : heard[l].n >= 3


\* ------------------------------------------------- properties of the answers

\* the connection header of a framed request asks for keep-alive
AsksKeepAlive(e) ==
    /\ hget(e.headers, "connection") # None
    /\ toLowerCase(hget(e.headers, "connection")) = "keep-alive"

\* every buffered response carries keep-alive exactly when its request asked
\* for it, and close otherwise
C13_Header ==
    \A c \in Conns :
        \A i \in DOMAIN out[c] :
            out[c][i].kind = "response" =>
                out[c][i].headers["connection"] =
                    IF AsksKeepAlive(hist[c][out[c][i].n]) THEN "keep-alive" ELSE "close"

\* a connection that was sent a response with connection: close is marked ended
C13_Marked ==
    \A c \in Conns :
        \A i \in DOMAIN out[c] :
            (out[c][i].kind = "response" /\ out[c][i].headers["connection"] = "close")
                => socketEnded[c]

\* the step that writes a close response leaves the socket open and waits
\* for the flush; the socket is ended by the step that confirms the flush
C13_Flush ==
    \A c \in Conns :
        /\ (/\ Len(out'[c]) = Len(out[c]) + 1
            /\ out'[c][Len(out'[c])].kind = "response"
            /\ out'[c][Len(out'[c])].headers["connection"] = "close")
               => /\ socketEnded'[c]
                  /\ sock'[c].flush
                  /\ sock'[c].writable = sock[c].writable
                  /\ sock'[c].destroyed = sock[c].destroyed
        /\ (sock[c].flush /\ ~sock'[c].flush) => ~sock'[c].writable

(* C13: a buffered response carries connection: keep-alive exactly when    *)
(* the connection header of its request is keep-alive in any letter case,  *)
(* and close otherwise; with close the connection is marked ended in the   *)
(* step that writes the response, and the socket is ended only by the      *)
(* confirmation that the write was flushed.                                *)
C13_ConnectionHeader == [](C13_Header /\ C13_Marked) /\ [][C13_Flush]_vars

(* C15: a request whose path is not the endpoint, a sub-path or a query of *)
(* it is answered 404 with the plain text Not Found and gets no handler    *)
(* instance; the step that frames it changes neither the registry nor the  *)
(* bindings and dispatches nothing.                                        *)
C15_Answer ==
    \A c \in Conns :
        \A i \in DOMAIN hist[c] :
            ~endpointMatches(hist[c][i].path) =>
                /\ hist[c][i].route = "404"
                /\ hist[c][i].inst = NoInst
                /\ \A j \in DOMAIN out[c] :
                       out[c][j].n = i =>
                           /\ out[c][j].status = 404
                           /\ out[c][j].body = NotFoundBody
                           /\ out[c][j].headers["content-type"] = "text/plain"

C15_Step ==
    \A c \in Conns :
        (/\ Len(hist'[c]) = Len(hist[c]) + 1
         /\ ~endpointMatches(hist'[c][Len(hist'[c])].path))
            => /\ UNCHANGED << regVars, gwVars, tasks >>
               /\ (~socketEnded'[c] /\ sock'[c].writable) => running' = c

C15_NotFound == []C15_Answer /\ [][C15_Step]_vars

(* C16: when the handler call of a request throws, a 500 response for the  *)
(* request is written if the connection is writable and the loop of the    *)
(* connection goes on; if the connection is not writable, it is destroyed. *)
C16_Step ==
    \A t \in tasks :
        (t.pc = "handle" /\ ~\E u \in tasks' : u.c = t.c /\ u.n = t.n) =>
            IF unwritable(Conn(t.c))
            THEN sock'[t.c].destroyed
            ELSE /\ Len(out'[t.c]) = Len(out[t.c]) + 1
                 /\ out'[t.c][Len(out'[t.c])].n = t.n
                 /\ out'[t.c][Len(out'[t.c])].status = 500
                 /\ running' = t.c

C16_HandlerThrows == [][C16_Step]_vars

(* C14: a request whose session header names an id with a handler binding  *)
(* reuses the binding: the step that frames it constructs no transport,    *)
(* changes no binding, adds and removes no session, notifies nobody,       *)
(* applies updateActivity(id) once (lastActivity = now, the one timer of   *)
(* the id due a full window from now, nothing else of the record changed)  *)
(* and only then suspends at the call of the bound handler, with nothing   *)
(* written yet.                                                            *)
Refreshed(id) ==
    IF id \in DOMAIN sessions
    THEN LET h == [id |-> id, due |-> now + INACTIVITY_TIMEOUT_MS]
         IN  /\ sessions' = [sessions EXCEPT ![id].lastActivity = now,
                                             ![id].timeoutHandle = h]
             /\ timers' = (timers \ {sessions[id].timeoutHandle}) \cup {h}
    ELSE sessions' = sessions /\ timers' = timers

C14_Step ==
    \A c \in Conns :
        LET n == Len(hist[c]) + 1
        IN  (Len(hist'[c]) = n /\ hist'[c][n].route = "reuse") =>
                LET id == hget(hist'[c][n].headers, "mcp-session-id")
                IN  /\ id \in DOMAIN sessionTransports
                    /\ transports' = transports
                    /\ sessionTransports' = sessionTransports
                    /\ closing' = closing
                    /\ heard' = heard
                    /\ slog' = slog
                    /\ Refreshed(id)
                    /\ out'[c] = out[c]
                    /\ \E t \in tasks' \ tasks :
                           /\ tasks' = tasks \cup {t}
                           /\ t.c = c /\ t.n = n /\ t.pc = "handle"
                           /\ t.inst = sessionTransports[id]

C14_ReuseBinding == [][C14_Step]_vars

\* a request reused the binding of a live session after its first activity
C14_Witness ==
    \E c \in Conns : \E i \in 1..Len(hist[c]) :
        LET id == hget(hist[c][i].headers, "mcp-session-id")
        IN  /\ hist[c][i].route = "reuse"
            /\ hist[c][i].live
            /\ id \in DOMAIN sessions
            /\ sessions[id].lastActivity > sessions[id].connectedAt
            /\ \E t \in tasks : t.c = c /\ t.n = i /\ t.pc = "handle"

(* C17: add(id) on an id that is already active has exactly the effect of  *)
(* updateActivity(id): the same sessions with the same connectedAt and     *)
(* client metadata, no notification, no second timer; only lastActivity    *)
(* and the deadline of the one timer are refreshed. In every state each    *)
(* id has at most one record and each record exactly one pending timer.    *)
AddedAgain(id) ==
    slog'[id] = Append(slog[id], [e |-> "add", existed |-> TRUE])

C17_Step ==
    \A id \in SessionIds :
        AddedAgain(id) =>
            LET U == updateActivity(World, id, now)
            IN  /\ id \in DOMAIN sessions
                /\ sessions' = U.sessions
                /\ timers' = U.timers
                /\ DOMAIN sessions' = DOMAIN sessions
                /\ Cardinality(DOMAIN sessions') = Cardinality(DOMAIN sessions)
                /\ \A x \in DOMAIN sessions \ {id} : sessions'[x] = sessions[x]
                /\ sessions'[id].connectedAt = sessions[id].connectedAt
                /\ sessions'[id].clientName = sessions[id].clientName
                /\ sessions'[id].lastActivity = now
                /\ sessions'[id].timeoutHandle.due = now + INACTIVITY_TIMEOUT_MS
                /\ Cardinality(timers') = Cardinality(timers)
                /\ heard' = heard
                /\ listeners' = listeners
                /\ \A x \in SessionIds \ {id} : slog'[x] = slog[x]

C17_OnePerId ==
    /\ \A id \in DOMAIN sessions :
          /\ sessions[id].id = id
          /\ {h \in timers : h.id = id} = {sessions[id].timeoutHandle}
    /\ \A h \in timers : h.id \in DOMAIN sessions

C17_AddIdempotent == []C17_OnePerId /\ [][C17_Step]_vars

\* the last call for an id was an add that found it, later than its first add
C17_Witness ==
    \E id \in DOMAIN sessions :
        /\ Len(slog[id]) > 0
        /\ slog[id][Len(slog[id])] = [e |-> "add", existed |-> TRUE]
        /\ sessions[id].lastActivity > sessions[id].connectedAt
        /\ sessions[id].timeoutHandle.due = sessions[id].lastActivity + INACTIVITY_TIMEOUT_MS

(* C18: every operation that changes the registry (add, remove,            *)
(* updateActivity, updateClientInfo, clear) is followed by one call of     *)
(* every subscribed listener with the full current session list: in a step *)
(* that changes the session map, each listener subscribed before and after *)
(* it is called once, with the sessions as they are after the step.        *)
C18_Step ==
    \A l \in listeners \cap listeners' :
        sessions' # sessions =>
            heard'[l] = [n |-> heard[l].n + 1, last |-> DOMAIN sessions']

C18_NotifyOnChange == [][C18_Step]_vars

(* C19: clear() cancels every pending inactivity timer and empties the     *)
(* session map without invoking the removal callback for any session (no   *)
(* removal is logged, no transport is closed, no binding is touched), and  *)
(* after clear() no timer scheduled before it fires a removal or a removal *)
(* callback: a timeout or a callback logged for an id after a clear comes  *)
(* after a later add of that id.                                           *)
Cleared == \E id \in SessionIds : Len(slog'[id]) > Len(slog[id])
                                  /\ slog'[id][Len(slog'[id])].e = "clear"

C19_Step ==
    Cleared =>
        /\ timers' = {}
        /\ DOMAIN sessions' = {}
        /\ \A id \in SessionIds :
              slog'[id] = Append(slog[id], [e |-> "clear",
                                           existed |-> id \in DOMAIN sessions])
        /\ heard' = heard
        /\ sessionTransports' = sessionTransports
        /\ transports' = transports
        /\ closing' = closing

C19_NothingLeft ==
    \A id \in SessionIds : \A i, j \in 1..Len(slog[id]) :
        (i < j /\ slog[id][i].e = "clear" /\ slog[id][j].e \in {"timeout", "callback", "delete"}) =>
            \E k \in (i + 1)..(j - 1) : slog[id][k] = [e |-> "add", existed |-> FALSE]

C19_Clear == []C19_NothingLeft /\ [][C19_Step]_vars

\* a session with a pending timer was cleared and not added again, and the
\* clock has since passed the deadline the timer had
C19_Witness ==
    \E id, other \in SessionIds :
        /\ id # other
        /\ id \notin DOMAIN sessions
        /\ Len(slog[id]) > 0
        /\ slog[id][Len(slog[id])] = [e |-> "clear", existed |-> TRUE]
        /\ other \in DOMAIN sessions
        /\ Len(slog[other]) >= 3
        /\ slog[other][Len(slog[other]) - 2].e = "clear"
        /\ slog[other][Len(slog[other]) - 1] = [e |-> "add", existed |-> FALSE]
        /\ now >= sessions[other].connectedAt + INACTIVITY_TIMEOUT_MS

(* C20: a request whose content-length header is missing or cannot be      *)
(* parsed as a number is framed with body length 0: the loop iteration     *)
(* that finds its header separator in the buffer emits it with an empty    *)
(* body, removes exactly the bytes up to and including the separator from  *)
(* the buffer, and throws nothing.                                         *)
NoLength(buf) ==
    LET headerEnd == indexOfSeparator(buf)
        headers == parseHeaders(Tail(split(subarray(buf, 0, headerEnd))), NoHeaders)
        cl == hget(headers, "content-length")
    IN  /\ headerEnd # -1
        /\ cl = None \/ parseInt(cl).nan

C20_Step ==
    \A c \in Conns :
        (running = c /\ ~unwritable(Conn(c)) /\ NoLength(buffer[c])) =>
            LET n == Len(hist[c]) + 1
            IN  /\ Len(hist'[c]) = n
                /\ hist'[c][n].body = << >>
                /\ hist'[c][n].route # "reject"
                /\ buffer'[c] = subarray(buffer[c], indexOfSeparator(buffer[c]) + 4,
                                         Len(buffer[c]))

C20_NoLengthNoBody == [][C20_Step]_vars

(* C21: the bindings are shared by all connections, and between the steps  *)
(* of onsessioninitialized and of a removal every id of the registry has a *)
(* binding in sessionTransports, the binding is the handler instance that  *)
(* minted the id, and two ids are never bound to one instance, however the *)
(* requests without a session header of the connections interleave.        *)
C21_BindingsMatch ==
    /\ \A id \in DOMAIN sessions :
          /\ id \in DOMAIN sessionTransports
          /\ transports[sessionTransports[id]].sessionId = id
    /\ \A a, b \in DOMAIN sessions \cap DOMAIN sessionTransports :
          a # b => sessionTransports[a] # sessionTransports[b]

\* the inactivity timer of id has fired and removed it from the registry
TimedOut(id) ==
    /\ id \in SessionIds
    /\ \E i \in 1..(Len(slog[id]) - 1) :
          slog[id][i].e = "timeout" /\ slog[id][i + 1].e = "clearTimeout"

(* C22: from the moment the inactivity timer has removed a session from    *)
(* the registry, every request carrying its id is rejected with 409 and is *)
(* not dispatched to its former handler instance, also while the removal   *)
(* callback still awaits transport.close() and the binding is not deleted. *)
C22_Step ==
    \A c \in Conns :
        LET n == Len(hist[c]) + 1
        IN  (/\ Len(hist'[c]) = n
             /\ Routed(hist'[c][n])
             /\ TimedOut(SessionOf(hist'[c][n])))
                => /\ hist'[c][n].route = "409"
                   /\ tasks' = tasks

C22_RemovedIsRejected == [][C22_Step]_vars

\* the create-new-session handshakes of connection c that are in flight: a
\* request without session header whose new instance has not minted an id
Handshakes(c) ==
    {t \in InFlight(c) : /\ ~truthy(t.sessionId)
                         /\ t.pc \in {"connect", "handle"}
                         /\ transports[t.inst].sessionId = None}

(* C23: at any time at most one create-new-session handshake is in flight  *)
(* per connection, also when several requests without a session header     *)
(* arrive on the connection before the first handshake completes.          *)
C23_OneHandshake == \A c \in Conns : Cardinality(Handshakes(c)) <= 1

(* C24: one run of the processing loop terminates: each iteration that     *)
(* frames a request removes at least one byte from the buffer, so the same *)
(* bytes are never framed and answered twice.                              *)
C24_Step ==
    \A c \in Conns :
        Len(hist'[c]) > Len(hist[c]) => Len(buffer'[c]) < Len(buffer[c])

C24_FramingConsumes == [][C24_Step]_vars

\* each session has exactly one pending timer, the one its record holds, and
\* every pending timer belongs to a session of the registry
C25_Pending ==
    /\ \A id \in DOMAIN sessions :
          /\ Cardinality({h \in timers : h.id = id}) = 1
          /\ sessions[id].timeoutHandle \in timers
    /\ \A h \in timers : h.id \in DOMAIN sessions

\* a step that gives a session another timer cancels the old one, and a
\* timer that fires is the one its session holds, set at its last activity
C25_Step ==
    /\ \A id \in DOMAIN sessions \cap DOMAIN sessions' :
          sessions'[id].timeoutHandle # sessions[id].timeoutHandle =>
              /\ sessions[id].timeoutHandle \notin timers'
              /\ sessions'[id].timeoutHandle \in timers'
    /\ \A id \in SessionIds :
          (/\ Len(slog'[id]) > Len(slog[id])
           /\ slog'[id][Len(slog[id]) + 1].e = "timeout") =>
              /\ id \in DOMAIN sessions
              /\ slog'[id][Len(slog[id]) + 1].due = sessions[id].timeoutHandle.due
              /\ sessions[id].timeoutHandle.due =
                     sessions[id].lastActivity + INACTIVITY_TIMEOUT_MS

(* C25: in every reachable state each session of the registry has exactly  *)
(* one pending inactivity timer and no timer is pending for an id that is  *)
(* not in the registry; a reset cancels the old timer in the step that     *)
(* schedules the new one, so a timer superseded by later activity never    *)
(* fires.                                                                  *)
C25_OneTimerPerSession == []C25_Pending /\ [][C25_Step]_vars

\* a session whose timer was reset by later activity has outlived the
\* deadline of its first timer without any timer having fired for it
C25_Witness ==
    \E id \in DOMAIN sessions :
        /\ sessions[id].lastActivity > sessions[id].connectedAt
        /\ now >= sessions[id].connectedAt + INACTIVITY_TIMEOUT_MS
        /\ Events(id, {"timeout"}) = << >>
        /\ sessions[id].timeoutHandle \in timers

(* C26: the placeholder key is never resolved as a session id: a request   *)
(* to the endpoint whose session header is the placeholder string is       *)
(* answered 409 and is dispatched to no handler instance, also while a     *)
(* handshake is in flight.                                                 *)
C26_PlaceholderIs409 ==
    \A c \in Conns :
        \A i \in DOMAIN hist[c] :
            (Routed(hist[c][i]) /\ SessionOf(hist[c][i]) = PENDING)
                => /\ hist[c][i].route = "409"
                   /\ hist[c][i].inst = NoInst

\* the method on the start line of the first header section of the buffer
MethodOf(buf) ==
    startLine(split(subarray(buf, 0, indexOfSeparator(buf)))[1]).method

(* C27: a GET or HEAD request is emitted as soon as its header section is  *)
(* completely buffered, without waiting for body bytes, even when it       *)
(* declares a non-zero content-length: the loop iteration that finds the   *)
(* separator of such a request frames it.                                  *)
C27_Step ==
    \A c \in Conns :
        (/\ running = c
         /\ ~unwritable(Conn(c))
         /\ indexOfSeparator(buffer[c]) # -1
         /\ MethodOf(buffer[c]) \in {"GET", "HEAD"})
            => /\ Len(hist'[c]) = Len(hist[c]) + 1
               /\ hist'[c][Len(hist'[c])].method = MethodOf(buffer[c])

C27_GetNeedsNoBody == [][C27_Step]_vars

\* a step that adds or removes sessions calls every listener that stays
\* subscribed, the throwing ones and those after them, once for each change,
\* and a step that calls listeners changes the sessions as it does without
C28_Step ==
    /\ Changed # {} =>
          \A l \in listeners \cap listeners' :
              /\ heard'[l].n = heard[l].n + Cardinality(Changed)
              /\ heard'[l].last = DOMAIN sessions'
    /\ listeners' # listeners => sessions' = sessions

(* C28: an exception thrown by a subscriber or by the removal callback     *)
(* while a registry operation (add, remove, updateClientInfo, subscribe)   *)
(* invokes it never reaches the caller of the operation, does not keep the *)
(* other subscribers and the callback from being invoked, and leaves the   *)
(* session map as the operation leaves it without the exception.           *)
C28_NothingEscapes == [](escaped = 0) /\ [][C28_Step]_vars

\* a request of connection c is handed to its handler in this step
Dispatched(c) == \E t \in tasks' \ tasks : t.c = c /\ t.pc = "handle"

C29_Step ==
    \A c \in Conns :
        sock[c].destroyed =>
            /\ buffer'[c] = << >>
            /\ hist'[c] = hist[c]
            /\ out'[c] = out[c]
            /\ ~Dispatched(c)

(* C29: after a socket-level error on a connection its buffer is cleared,  *)
(* the connection counts as ended (the socket is destroyed and stays so),  *)
(* and nothing more is framed, dispatched to a handler or written for it.  *)
C29_ErrorStopsConnection ==
    /\ [](\A c \in Conns : sock[c].destroyed => buffer[c] = << >> /\ ~sock[c].writable)
    /\ [][C29_Step]_vars

(* C30: when a request without a session header completes without its     *)
(* handler minting an id, nothing of it remains: the instance stored under *)
(* the placeholder key always belongs to a request that is still in        *)
(* flight, and an instance that never minted an id is referenced by no     *)
(* binding once its request is done.                                       *)
C30_NoLeftover ==
    \A k \in DOMAIN sessionTransports :
        transports[sessionTransports[k]].sessionId = None =>
            \E t \in tasks : t.inst = sessionTransports[k]

====
